---- MODULE Spec2Model ----
(***************************************************************************)
(* A model of backgroundremover.pyw: the command surface main(), the       *)
(* registry functions register_context_menu / unregister_context_menu and  *)
(* the file-processing function remove_background.                         *)
(*                                                                         *)
(* One behaviour is a sequence of runs of the program.  The registry and   *)
(* the file system persist between runs; everything else is local to a     *)
(* run.  A run of --register or --unregister is one action (the whole      *)
(* handler, all four extensions); a run that processes a file walks        *)
(* through remove_background: imread, grabCut (initialisation and five     *)
(* refinement iterations), compositing and imwrite.                        *)
(***************************************************************************)
EXTENDS Integers, Sequences, FiniteSets, TLC

VARIABLES
    hasWinreg,   \* whether "import winreg" succeeds on this platform
    reg,         \* the registry: existing key path -> the key's values
    fs,          \* the file system: existing path -> the file's content
    pc,          \* position of the current run
    args,        \* argparse result of the current run
    reg0,        \* registry when the current run started
    fs0,         \* file system when the current run started
    prev,        \* the previous run: its mode, whether an operation failed
    run,         \* what the current run did: mode, handler faults, attempts
    out,         \* console messages of the current run, in order
    output_file, \* main(): base + "_nobg.png", or None
    img,         \* remove_background: the decoded image, or None
    rect,        \* remove_background: the initialisation rectangle
    mask,        \* remove_background: the label mask
    iter,        \* grabCut: refinement iterations done
    rgba,        \* remove_background: the 4-channel buffer, or NoImage
    runs         \* number of runs started

vars == <<hasWinreg, reg, fs, pc, args, reg0, fs0, prev, run, out,
          output_file, img, rect, mask, iter, rgba, runs>>

(***************************************************************************)
(* Bounds of the model.                                                    *)
(***************************************************************************)
MaxRuns == 2        \* runs of the program in one behaviour
MaxFaults == 1      \* registry operations that fail in one handler call
MaxPathLen == 5     \* characters in the file argument
MaxDim == 3         \* width and height of the small images
BigDim == 20        \* width and height of the one large image
MaxFree == 4        \* unconstrained pixels up to which every cut is tried
MaxCompW == 2       \* width of the images of the compositing specification

(***************************************************************************)
(* The registry (winreg, HKEY_CURRENT_USER): a function from the key paths *)
(* that exist to the values of the key.                                    *)
(***************************************************************************)
Unset == "unset"
Stale == "stale"                       \* data written by something else
MenuText == "Remove Background"        \* line 89
icon_path == "background_remover.ico"  \* line 78
command == "pythonw script %1"         \* line 75

ValueNames == {"", "Icon"}
EmptyValues == [n \in ValueNames |-> Unset]

\* the list of the docstring (line 62), without .webp
register_extensions_docstring == <<".jpg", ".jpeg", ".png">>

\* line 81: the list register_context_menu walks
register_extensions == <<".jpg", ".jpeg", ".png", ".webp">>

\* line 113: the list unregister_context_menu walks
unregister_extensions == <<".jpg", ".jpeg", ".png", ".webp">>

\* lines 86, 118: ...\{ext}\shell\RemoveBackground
key_path(ext) == <<ext, "shell", "RemoveBackground">>

\* lines 96, 120: key_path + "\command"
cmd_path(ext) == key_path(ext) \o <<"command">>

IsProperPrefix(a, b) == Len(a) < Len(b) /\ SubSeq(b, 1, Len(a)) = a

HasSubkeys(r, k) == \E k2 \in DOMAIN r : IsProperPrefix(k, k2)

\* winreg.CreateKey: creates the key, or opens it when it exists
CreateKey(r, k) == IF k \in DOMAIN r THEN r ELSE (k :> EmptyValues) @@ r

\* winreg.SetValueEx: sets (overwrites) one named value of an open key
SetValueEx(r, k, name, data) == [r EXCEPT ![k] = [@ EXCEPT ![name] = data]]

\* winreg.DeleteKey
DeleteKey(r, k) == [x \in (DOMAIN r) \ {k} |-> r[x]]

\* what winreg.DeleteKey raises by itself: the key is missing, or has subkeys
DeleteKeyError(r, k) ==
    IF k \notin DOMAIN r THEN "FileNotFoundError"
    ELSE IF HasSubkeys(r, k) THEN "PermissionError"
    ELSE "none"

\* lines 67, 109: except ImportError
CatchesImportError(e) == e = "ImportError"

\* line 100: except Exception
RegisterCatches(e) == e \in {"OSError", "PermissionError", "FileNotFoundError"}

\* an except clause that names one exception class only
UnregisterCatchesPermissionError(e) == e = "PermissionError"

\* line 124: except Exception
UnregisterCatches(e) == e \in {"OSError", "PermissionError", "FileNotFoundError"}

(***************************************************************************)
(* One pass of the try body of register_context_menu (lines 86-99).        *)
(* f is the registry operation that raises: 0 none, 1 CreateKey(key),      *)
(* 2 SetValueEx(""), 3 SetValueEx("Icon"), 4 CreateKey(command),           *)
(* 5 SetValueEx(command, "").  What was done before the exception stays.   *)
(***************************************************************************)
RegisterFaults == 0..5

RegisterExt(r, ext, f) ==
    LET k == key_path(ext)
        c == cmd_path(ext)
        r1 == CreateKey(r, k)
        r2 == SetValueEx(r1, k, "", MenuText)
        r3 == SetValueEx(r2, k, "Icon", icon_path)
        r4 == CreateKey(r3, c)
        r5 == SetValueEx(r4, c, "", command)
    IN  CASE f = 1 -> r
          [] f = 2 -> r1
          [] f = 3 -> r2
          [] f = 4 -> r3
          [] f = 5 -> r4
          [] OTHER -> r5

RegisterExtError(r, ext, f) == IF f = 0 THEN "none" ELSE "OSError"

(***************************************************************************)
(* One pass of the try body of unregister_context_menu (lines 118-123).    *)
(* f is the injected failure: 0 none, 1 DeleteKey(command),                *)
(* 2 DeleteKey(key).  DeleteKey also raises by itself on a missing key,    *)
(* and the exception of the first DeleteKey skips the second.              *)
(***************************************************************************)
UnregisterFaults == 0..2

UnregisterExtError(r, ext, f) ==
    LET k == key_path(ext)
        c == cmd_path(ext)
        r1 == DeleteKey(r, c)
    IN  IF DeleteKeyError(r, c) # "none" THEN DeleteKeyError(r, c)
        ELSE IF f = 1 THEN "PermissionError"
        ELSE IF DeleteKeyError(r1, k) # "none" THEN DeleteKeyError(r1, k)
        ELSE IF f = 2 THEN "PermissionError"
        ELSE "none"

UnregisterExt(r, ext, f) ==
    LET k == key_path(ext)
        c == cmd_path(ext)
        r1 == DeleteKey(r, c)
        r2 == DeleteKey(r1, k)
    IN  IF f = 1 \/ DeleteKeyError(r, c) # "none" THEN r
        ELSE IF f = 2 \/ DeleteKeyError(r1, k) # "none" THEN r1
        ELSE r2

(***************************************************************************)
(* The for loops (lines 84-101, 116-125) over the first n extensions.  The *)
(* loop state is the registry, the messages printed and the exception that *)
(* escaped the except clause ("none": the loop goes on).                   *)
(***************************************************************************)
LoopStart(r) == [r |-> r, out |-> <<>>, escaped |-> "none"]

RegisterPass(s, ext, f) ==
    LET e == RegisterExtError(s.r, ext, f)
        r2 == RegisterExt(s.r, ext, f)
    IN  IF s.escaped # "none" THEN s
        ELSE IF e = "none"
        THEN [s EXCEPT !.r = r2, !.out = Append(@, <<"Registered context menu", ext>>)]
        ELSE IF RegisterCatches(e)
        THEN [s EXCEPT !.r = r2, !.out = Append(@, <<"Error registering", ext>>)]
        ELSE [s EXCEPT !.r = r2, !.escaped = e]

UnregisterPass(s, ext, f) ==
    LET e == UnregisterExtError(s.r, ext, f)
        r2 == UnregisterExt(s.r, ext, f)
    IN  IF s.escaped # "none" THEN s
        ELSE IF e = "none"
        THEN [s EXCEPT !.r = r2, !.out = Append(@, <<"Unregistered context menu", ext>>)]
        ELSE IF UnregisterCatches(e)
        THEN [s EXCEPT !.r = r2, !.out = Append(@, <<"Error unregistering", ext>>)]
        ELSE [s EXCEPT !.r = r2, !.escaped = e]

RECURSIVE RegisterLoop(_, _, _, _)
RegisterLoop(r, exts, faults, n) ==
    IF n = 0 THEN LoopStart(r)
    ELSE RegisterPass(RegisterLoop(r, exts, faults, n - 1), exts[n], faults[n])

RECURSIVE UnregisterLoop(_, _, _, _)
UnregisterLoop(r, exts, faults, n) ==
    IF n = 0 THEN LoopStart(r)
    ELSE UnregisterPass(UnregisterLoop(r, exts, faults, n - 1), exts[n], faults[n])

\* which operation fails in each pass: at most MaxFaults passes fail
FaultPlans(exts, kinds) ==
    {p \in [1..Len(exts) -> kinds] :
        Cardinality({i \in 1..Len(exts) : p[i] # 0}) <= MaxFaults}

FaultCount(p) == Cardinality({i \in DOMAIN p : p[i] # 0})

RegisterPlans == FaultPlans(register_extensions, RegisterFaults)
UnregisterPlans == FaultPlans(unregister_extensions, UnregisterFaults)

\* register_context_menu() (lines 60-101)
register_context_menu(r, winreg, faults) ==
    IF ~winreg
    THEN IF CatchesImportError("ImportError")
         THEN [r |-> r, out |-> <<<<"winreg module is only available on Windows.", "">>>>,
               escaped |-> "none"]
         ELSE [r |-> r, out |-> <<>>, escaped |-> "ImportError"]
    ELSE RegisterLoop(r, register_extensions, faults, Len(register_extensions))

\* unregister_context_menu() (lines 103-125)
unregister_context_menu(r, winreg, faults) ==
    IF ~winreg
    THEN IF CatchesImportError("ImportError")
         THEN [r |-> r, out |-> <<<<"winreg module is only available on Windows.", "">>>>,
               escaped |-> "none"]
         ELSE [r |-> r, out |-> <<>>, escaped |-> "ImportError"]
    ELSE UnregisterLoop(r, unregister_extensions, faults, Len(unregister_extensions))

(***************************************************************************)
(* Paths: sequences of characters.  "/" separates directories.             *)
(***************************************************************************)
Chars == {"a", ".", "/"}
Paths == UNION {[1..n -> Chars] : n \in 0..MaxPathLen}
NoPath == <<"None">>                  \* args.file when no file is given

\* str.rfind, 1-based: 0 when c does not occur in p
rfind(p, c) ==
    IF \E i \in 1..Len(p) : p[i] = c
    THEN CHOOSE i \in 1..Len(p) : p[i] = c /\ \A j \in (i + 1)..Len(p) : p[j] # c
    ELSE 0

\* str.find, 1-based: 0 when c does not occur in p
find(p, c) ==
    IF \E i \in 1..Len(p) : p[i] = c
    THEN CHOOSE i \in 1..Len(p) : p[i] = c /\ \A j \in 1..(i - 1) : p[j] # c
    ELSE 0

\* input_file.split(".")[0]: the path up to its first dot
split_first_dot(p) == IF find(p, ".") = 0 THEN p ELSE SubSeq(p, 1, find(p, ".") - 1)

\* os.path.splitext(p)[0] (line 152): the path up to the last dot of its
\* last component, leading dots of that component not counting
splitext_base(p) ==
    LET sepIndex == rfind(p, "/")
        dotIndex == rfind(p, ".")
    IN  IF /\ dotIndex > sepIndex
           /\ \E i \in (sepIndex + 1)..(dotIndex - 1) : p[i] # "."
        THEN SubSeq(p, 1, dotIndex - 1)
        ELSE p

\* line 153: base + "_nobg.png"
Suffix == <<"_", "n", "o", "b", "g", ".", "p", "n", "g">>
output_name(input_file) == splitext_base(input_file) \o Suffix

(***************************************************************************)
(* Images: width, height and one colour triple (b, g, r) per pixel, the    *)
(* pixels being <<x, y>> with 0 <= x < width, 0 <= y < height.             *)
(***************************************************************************)
NoImage == [kind |-> "None"]
Pixels(w, h) == (0..(w - 1)) \X (0..(h - 1))
Palette == <<<<0, 0, 0>>, <<255, 255, 255>>, <<10, 200, 30>>>>
NumPatterns == 2

MakeImage(w, h, pat) ==
    [kind |-> "image", w |-> w, h |-> h,
     px |-> [p \in Pixels(w, h) |-> Palette[((p[1] + pat * p[2] + pat) % Len(Palette)) + 1]]]

\* the labels of a grabCut mask
GC_BGD == 0
GC_FGD == 1
GC_PR_BGD == 2
GC_PR_FGD == 3

(***************************************************************************)
(* remove_background (lines 11-55).                                        *)
(***************************************************************************)
\* cv2.imread (line 17): the decoded image, or None
imread(files, path) ==
    IF path \in DOMAIN files /\ files[path].kind = "image" THEN files[path] ELSE NoImage

Max(a, b) == IF a >= b THEN a ELSE b

\* lines 29-32: int(width * 0.05) is floor(width * 5 / 100)
init_rect(width, height) ==
    <<Max(1, (width * 5) \div 100),
      Max(1, (height * 5) \div 100),
      width - ((width * 10) \div 100),
      height - ((height * 10) \div 100)>>

\* line 24: np.zeros(img.shape[:2])
zero_mask(image) == [p \in Pixels(image.w, image.h) |-> 0]

(***************************************************************************)
(* cv2.grabCut(img, mask, rect, ..., 5, GC_INIT_WITH_RECT) (line 35).      *)
(* With GC_INIT_WITH_RECT the library clips the rectangle to the image:    *)
(* the pixels of the image that lie in the rectangle start as              *)
(* probable-foreground, the others as definite-background, and the call    *)
(* raises cv2.error when one of the two colour samples is empty.  Each     *)
(* iteration then cuts the pixel graph: the mixture models and the min-cut *)
(* are not modelled, the cut is any partition of the pixels that are not   *)
(* hard-constrained.                                                       *)
(***************************************************************************)
iterCount == 5

InRect(p, rc) ==
    /\ rc[1] <= p[1] /\ p[1] < rc[1] + rc[3]
    /\ rc[2] <= p[2] /\ p[2] < rc[2] + rc[4]

initMaskWithRect(image, rc) ==
    [p \in Pixels(image.w, image.h) |->
        IF InRect(p, rc) THEN GC_PR_FGD ELSE GC_BGD]

grabCutRaises(image, rc) ==
    LET m == initMaskWithRect(image, rc)
    IN  \/ \A p \in DOMAIN m : m[p] = GC_BGD
        \/ \A p \in DOMAIN m : m[p] = GC_PR_FGD

\* the pixels an iteration may relabel
Free(m) == {p \in DOMAIN m : m[p] \in {GC_PR_BGD, GC_PR_FGD}}

\* the source sides tried: every subset of a small free set, and for a larger
\* one the free pixels of every set of colours
Cuts(image, m) ==
    IF Cardinality(Free(m)) <= MaxFree
    THEN SUBSET Free(m)
    ELSE {{p \in Free(m) : image.px[p] \in cs} :
              cs \in SUBSET {Palette[i] : i \in 1..Len(Palette)}}

\* step 2e: a pixel that is not hard-constrained takes the side of the cut
Relabel(m, source) ==
    [p \in DOMAIN m |->
        IF m[p] \in {GC_BGD, GC_FGD} THEN m[p]
        ELSE IF p \in source THEN GC_PR_FGD ELSE GC_PR_BGD]

\* a mask2 that keeps probable foreground only
CompositeProbableOnly(image, m) ==
    LET mask2 == [p \in DOMAIN m |-> IF m[p] = GC_PR_FGD THEN 1 ELSE 0]
    IN  [kind |-> "rgba", w |-> image.w, h |-> image.h,
         px |-> [p \in DOMAIN image.px |->
                    <<(image.px[p][1] * mask2[p]) % 256, (image.px[p][2] * mask2[p]) % 256,
                      (image.px[p][3] * mask2[p]) % 256, (mask2[p] * 255) % 256>>]]

\* a mask2 that clears probable background only
CompositeKeepsDefiniteBackground(image, m) ==
    LET mask2 == [p \in DOMAIN m |-> IF m[p] = GC_PR_BGD THEN 0 ELSE 1]
    IN  [kind |-> "rgba", w |-> image.w, h |-> image.h,
         px |-> [p \in DOMAIN image.px |->
                    <<(image.px[p][1] * mask2[p]) % 256, (image.px[p][2] * mask2[p]) % 256,
                      (image.px[p][3] * mask2[p]) % 256, (mask2[p] * 255) % 256>>]]

\* lines 38-48: mask2, img_foreground, alpha and the merged buffer (uint8)
Composite(image, m) ==
    LET mask2 == [p \in DOMAIN m |->
                    IF m[p] = GC_BGD \/ m[p] = GC_PR_BGD THEN 0 ELSE 1]
        img_foreground == [p \in DOMAIN image.px |->
                    [c \in 1..3 |-> (image.px[p][c] * mask2[p]) % 256]]
        alpha == [p \in DOMAIN m |-> (mask2[p] * 255) % 256]
    IN  [kind |-> "rgba", w |-> image.w, h |-> image.h,
         px |-> [p \in DOMAIN image.px |->
                    <<img_foreground[p][1], img_foreground[p][2],
                      img_foreground[p][3], alpha[p]>>]]

\* cv2.imwrite (line 51): on success the file holds the buffer; on failure the
\* file is left as it was or is removed, and False comes back
ImwriteOutcomes == {"written", "untouched", "removed"}

imwrite(files, path, buffer, outcome) ==
    CASE outcome = "written" -> (path :> buffer) @@ files
      [] outcome = "removed" -> [x \in (DOMAIN files) \ {path} |-> files[x]]
      [] OTHER -> files

(***************************************************************************)
(* main() (lines 130-160): one action per branch, and the steps of the     *)
(* file-processing branch.                                                 *)
(***************************************************************************)
RunStart == [did |-> <<>>, faults |-> 0, wrote |-> {}]

\* truthiness of args.file: None and "" are false
FileGiven(a) == a.file # NoPath /\ a.file # <<>>

\* an existence test that always passes
exists_always(files, path) == TRUE

\* os.path.exists (line 148)
exists(files, path) == path \in DOMAIN files

\* the chain written as three ifs that do not return
main_branches_fallthrough(a) ==
    LET all == (IF a.register THEN <<"register">> ELSE <<>>)
               \o (IF a.unregister THEN <<"unregister">> ELSE <<>>)
               \o (IF FileGiven(a) THEN <<"file">> ELSE <<>>)
    IN  IF all = <<>> THEN <<"help">> ELSE all

\* lines 140-160: the if/elif chain, each branch returning: the handlers one
\* run of main() goes through, in order
main_branches(a) ==
    IF a.register THEN <<"register">>
    ELSE IF a.unregister THEN <<"unregister">>
    ELSE IF FileGiven(a) THEN <<"file">>
    ELSE <<"help">>

\* the branch main() is at, and where it is once that branch has returned
AtBranch(b) ==
    /\ pc = "start"
    /\ Len(run.did) < Len(main_branches(args))
    /\ main_branches(args)[Len(run.did) + 1] = b

AfterBranch == IF Len(run.did) + 1 < Len(main_branches(args)) THEN "start" ELSE "exited"

Locals == <<output_file, img, rect, mask, iter, rgba>>
Frame == <<hasWinreg, args, reg0, fs0, prev, runs>>

\* lines 140-142: --register
MainRegister ==
    /\ AtBranch("register")
    /\ \E plan \in RegisterPlans :
        /\ hasWinreg \/ FaultCount(plan) = 0
        /\ \E res \in {register_context_menu(reg, hasWinreg, plan)} :
               /\ reg' = res.r
               /\ out' = out \o res.out
               /\ pc' = IF res.escaped = "none" THEN AfterBranch ELSE "crashed"
               /\ run' = [run EXCEPT !.did = Append(@, "register"),
                                     !.faults = @ + FaultCount(plan)]
    /\ UNCHANGED <<fs, Locals, Frame>>

\* lines 143-145: --unregister
MainUnregister ==
    /\ AtBranch("unregister")
    /\ \E plan \in UnregisterPlans :
        /\ hasWinreg \/ FaultCount(plan) = 0
        /\ \E res \in {unregister_context_menu(reg, hasWinreg, plan)} :
               /\ reg' = res.r
               /\ out' = out \o res.out
               /\ pc' = IF res.escaped = "none" THEN AfterBranch ELSE "crashed"
               /\ run' = [run EXCEPT !.did = Append(@, "unregister"),
                                     !.faults = @ + FaultCount(plan)]
    /\ UNCHANGED <<fs, Locals, Frame>>

\* lines 146-150: the file does not exist
MainMissingFile ==
    /\ AtBranch("file")
    /\ ~exists(fs, args.file)
    /\ out' = Append(out, <<"Error: File does not exist.", args.file>>)
    /\ run' = [run EXCEPT !.did = Append(@, "missing")]
    /\ pc' = AfterBranch
    /\ UNCHANGED <<reg, fs, Locals, Frame>>

\* lines 159-160: parser.print_help()
MainHelp ==
    /\ AtBranch("help")
    /\ out' = Append(out, <<"usage", "">>)
    /\ run' = [run EXCEPT !.did = Append(@, "help")]
    /\ pc' = AfterBranch
    /\ UNCHANGED <<reg, fs, Locals, Frame>>

\* lines 146-155 and 17-32: the output name, then remove_background up to
\* the call of grabCut; an image that does not load ends the run (lines 18-20, 158)
MainProcess ==
    /\ AtBranch("file")
    /\ exists(fs, args.file)
    /\ output_file' = output_name(args.file)
    /\ img' = imread(fs, args.file)
    /\ run' = [run EXCEPT !.did = Append(@, "process")]
    /\ IF img'.kind = "None"
       THEN /\ out' = out \o <<<<"Processing", args.file>>,
                                <<"Error: Could not load image", args.file>>,
                                <<"Background removal failed.", "">>>>
            /\ pc' = AfterBranch
            /\ UNCHANGED <<rect, mask>>
       ELSE /\ out' = Append(out, <<"Processing", args.file>>)
            /\ rect' = init_rect(img'.w, img'.h)
            /\ mask' = zero_mask(img')
            /\ pc' = "grabcut"
    /\ UNCHANGED <<reg, fs, iter, rgba, Frame>>

\* line 35: grabCut starts; its cv2.error is caught nowhere
GrabCutInit ==
    /\ pc = "grabcut"
    /\ IF grabCutRaises(img, rect)
       THEN pc' = "crashed" /\ UNCHANGED mask
       ELSE pc' = "iterating" /\ mask' = initMaskWithRect(img, rect)
    /\ iter' = 0
    /\ UNCHANGED <<reg, fs, out, run, output_file, img, rect, rgba, Frame>>

\* line 35: one of the five refinement iterations
GrabCutIterate ==
    /\ pc = "iterating"
    /\ iter < iterCount
    /\ \E source \in Cuts(img, mask) : mask' = Relabel(mask, source)
    /\ iter' = iter + 1
    /\ UNCHANGED <<reg, fs, pc, out, run, output_file, img, rect, rgba, Frame>>

\* lines 38-55 and 155-158: compositing, imwrite, the result and its message
Finish ==
    /\ pc = "iterating"
    /\ iter = iterCount
    /\ rgba' = Composite(img, mask)
    /\ \E outcome \in ImwriteOutcomes :
        /\ fs' = imwrite(fs, output_file, rgba', outcome)
        /\ out' = IF outcome = "written"
                  THEN Append(out, <<"Background removal complete.", "">>)
                  ELSE out \o <<<<"Error: Could not write image", output_file>>,
                                <<"Background removal failed.", "">>>>
    /\ run' = [run EXCEPT !.wrote = @ \cup {output_file}]
    /\ pc' = IF Len(run.did) < Len(main_branches(args)) THEN "start" ELSE "exited"
    /\ UNCHANGED <<reg, output_file, img, rect, mask, iter, Frame>>

\* the process has ended; the program is started again with arguments from A
NextRun(A) ==
    /\ pc \in {"exited", "crashed"}
    /\ runs < MaxRuns
    /\ runs' = runs + 1
    /\ args' \in A
    /\ prev' = [did |-> run.did, faults |-> run.faults]
    /\ reg0' = reg
    /\ fs0' = fs
    /\ pc' = "start"
    /\ run' = RunStart
    /\ out' = <<>>
    /\ output_file' = NoPath
    /\ img' = NoImage
    /\ rect' = <<0, 0, 0, 0>>
    /\ mask' = <<>>
    /\ iter' = 0
    /\ rgba' = NoImage
    /\ UNCHANGED <<hasWinreg, reg, fs>>

InitRun ==
    /\ pc = "start"
    /\ prev = [did |-> <<>>, faults |-> 0]
    /\ run = RunStart
    /\ out = <<>>
    /\ output_file = NoPath
    /\ img = NoImage
    /\ rect = <<0, 0, 0, 0>>
    /\ mask = <<>>
    /\ iter = 0
    /\ rgba = NoImage
    /\ runs = 1
    /\ reg0 = reg
    /\ fs0 = fs

(***************************************************************************)
(* Registry states.  Per extension: no key; or the key with its two values *)
(* unset, stale or as the program writes them, and the command subkey      *)
(* missing or present with its value unset, stale or as written.           *)
(***************************************************************************)
NoFiles == <<>>
NoKeys == <<>>

KeyStates ==
    {[n \in ValueNames |-> IF n = "" THEN di[1] ELSE di[2]] :
        di \in {<<Unset, Unset>>, <<Stale, Stale>>, <<Stale, icon_path>>,
                <<MenuText, Unset>>, <<MenuText, icon_path>>}}

CmdStates == {[n \in ValueNames |-> IF n = "" THEN d ELSE Unset] :
                d \in {Unset, Stale, command}}

AllExts == {".jpg", ".jpeg", ".png", ".webp"}

\* every extension in the same state
RegInits ==
    {NoKeys}
    \cup {[k \in {key_path(e) : e \in AllExts} |-> kv] : kv \in KeyStates}
    \cup {[k \in {key_path(e) : e \in AllExts} \cup {cmd_path(e) : e \in AllExts} |->
              IF Len(k) = 3 THEN kv ELSE cv] : kv \in KeyStates, cv \in CmdStates}

Installed ==
    [k \in {key_path(e) : e \in AllExts} \cup {cmd_path(e) : e \in AllExts} |->
        IF Len(k) = 3
        THEN [n \in ValueNames |-> IF n = "" THEN MenuText ELSE icon_path]
        ELSE [n \in ValueNames |-> IF n = "" THEN command ELSE Unset]]

(***************************************************************************)
(* Specifications.                                                         *)
(***************************************************************************)
\* the registry runs: --register and --unregister, again and again
ShellArgs ==
    {[register |-> TRUE, unregister |-> FALSE, file |-> NoPath],
     [register |-> FALSE, unregister |-> TRUE, file |-> NoPath]}

InitShell ==
    /\ hasWinreg \in BOOLEAN
    /\ reg \in (IF hasWinreg THEN RegInits ELSE {NoKeys})
    /\ fs = NoFiles
    /\ args \in ShellArgs
    /\ InitRun

NextShell == MainRegister \/ MainUnregister \/ NextRun(ShellArgs)

SpecShell == InitShell /\ [][NextShell]_vars

\* one run of main() with any arguments
CliArgs == [register : BOOLEAN, unregister : BOOLEAN, file : Paths \cup {NoPath}]

OldFile == [kind |-> "old"]
Garbage == [kind |-> "garbage"]

\* files that may be in the way: a prefix of the argument, then "_nobg.png"
Candidates(p) == {SubSeq(p, 1, i) \o Suffix : i \in 0..Len(p)}

FsInits(p) ==
    LET inputs == {NoFiles} \cup
                  (IF p = NoPath \/ p = <<>> THEN {}
                   ELSE {(p :> c) : c \in {Garbage, MakeImage(1, 1, 1), MakeImage(2, 2, 1)}})
        others == {NoFiles} \cup
                  (IF p = NoPath THEN {} ELSE {(q :> OldFile) : q \in Candidates(p)})
    IN  {i @@ o : i \in inputs, o \in others}

\* with a flag set the file argument is one of these
FlagFiles == {NoPath, <<>>, <<"a", ".", "a">>}

Init ==
    /\ hasWinreg \in BOOLEAN
    /\ reg \in (IF hasWinreg THEN {NoKeys, Installed} ELSE {NoKeys})
    /\ args \in CliArgs
    /\ (args.register \/ args.unregister) => args.file \in FlagFiles
    /\ fs \in FsInits(args.file)
    /\ InitRun

Next ==
    \/ MainRegister
    \/ MainUnregister
    \/ MainMissingFile
    \/ MainHelp
    \/ MainProcess
    \/ GrabCutInit
    \/ GrabCutIterate
    \/ Finish

Spec == Init /\ [][Next]_vars

\* remove_background on every image of the bounded set
Dims == (1..MaxDim) \cup {BigDim}
Images == {MakeImage(w, h, pat) : w \in Dims, h \in Dims, pat \in 1..NumPatterns}
ImageFile == <<"a", ".", "a">>

InitImage ==
    /\ hasWinreg = TRUE
    /\ reg = NoKeys
    /\ args = [register |-> FALSE, unregister |-> FALSE, file |-> ImageFile]
    /\ fs \in {(ImageFile :> i) : i \in Images}
    /\ InitRun

NextImage == MainProcess \/ GrabCutInit \/ GrabCutIterate \/ Finish

SpecImage == InitImage /\ [][NextImage]_vars

\* the compositing step on every image and every label mask of the bounded set
CompImages == {MakeImage(w, h, pat) : w \in 1..MaxCompW, h \in 1..2, pat \in 1..NumPatterns}

InitComposite ==
    /\ hasWinreg = TRUE
    /\ reg = NoKeys
    /\ reg0 = reg
    /\ args = [register |-> FALSE, unregister |-> FALSE, file |-> ImageFile]
    /\ img \in CompImages
    /\ fs = (ImageFile :> img)
    /\ fs0 = fs
    /\ mask \in [Pixels(img.w, img.h) -> {GC_BGD, GC_FGD, GC_PR_BGD, GC_PR_FGD}]
    /\ rect = init_rect(img.w, img.h)
    /\ output_file = output_name(ImageFile)
    /\ iter = iterCount
    /\ pc = "iterating"
    /\ prev = [did |-> <<>>, faults |-> 0]
    /\ run = [RunStart EXCEPT !.did = <<"process">>]
    /\ out = <<<<"Processing", ImageFile>>>>
    /\ rgba = NoImage
    /\ runs = 1

NextComposite == Finish

SpecComposite == InitComposite /\ [][NextComposite]_vars

\* the registry runs from a system on which nothing was ever registered
InitFresh ==
    /\ hasWinreg = TRUE
    /\ reg = NoKeys
    /\ fs = NoFiles
    /\ args \in ShellArgs
    /\ InitRun

SpecFresh == InitFresh /\ [][NextShell]_vars

(***************************************************************************)
(* Properties.                                                             *)
(***************************************************************************)
Ended == pc \in {"exited", "crashed"}

EntryCount(r, e) ==
    Cardinality({k \in DOMAIN r : Len(k) = 3 /\ k[1] = e /\ k[3] = "RemoveBackground"})

CommandCount(r, e) ==
    Cardinality({k \in DOMAIN r :
                    Len(k) = 4 /\ k[1] = e /\ k[3] = "RemoveBackground" /\ k[4] = "command"})

Last(q) == q[Len(q)]

\* the extensions a message of the run names
Mentioned == {out[i][2] : i \in 1..Len(out)}

Printed(text) == \E i \in 1..Len(out) : out[i][1] = text

Clean(r) == \A e \in AllExts : EntryCount(r, e) = 0 /\ CommandCount(r, e) = 0

C10_UninstallCleansUp ==
    (/\ pc = "exited"
     /\ hasWinreg
     /\ run.did = <<"unregister">>
     /\ run.faults = 0)
    =>
    /\ Clean(reg)
    /\ Mentioned = AllExts

\* C3: the buffer remove_background composes has the dimensions of the image
\* and, at each pixel, opacity 255 and the three colour values of the image where
\* the label is probable or definite foreground, and opacity 0 and colour
\* (0, 0, 0) where it is probable or definite background; a written file holds
\* that buffer.
C3_Compositing ==
    (pc = "exited" /\ rgba.kind = "rgba")
    =>
    /\ rgba.w = img.w
    /\ rgba.h = img.h
    /\ DOMAIN rgba.px = Pixels(img.w, img.h)
    /\ \A p \in Pixels(img.w, img.h) :
        /\ mask[p] \in {GC_PR_FGD, GC_FGD} =>
              rgba.px[p] = <<img.px[p][1], img.px[p][2], img.px[p][3], 255>>
        /\ mask[p] \in {GC_PR_BGD, GC_BGD} => rgba.px[p] = <<0, 0, 0, 0>>
        /\ rgba.px[p][4] \in {0, 255}
    /\ Printed("Background removal complete.") => fs[output_file] = rgba

C3_Witness ==
    /\ pc = "exited"
    /\ rgba.kind = "rgba"
    /\ img.w = 2
    /\ img.h = 2
    /\ {mask[p] : p \in DOMAIN mask} = {GC_BGD, GC_FGD, GC_PR_BGD, GC_PR_FGD}
    /\ \E p \in DOMAIN mask : mask[p] = GC_FGD /\ rgba.px[p] = <<10, 200, 30, 255>>
    /\ \E p \in DOMAIN mask : mask[p] = GC_BGD /\ img.px[p] # <<0, 0, 0>>

RectValid(rc, w, h) ==
    /\ rc[3] > 0
    /\ rc[4] > 0
    /\ rc[1] + rc[3] <= w
    /\ rc[2] + rc[4] <= h

Decoded == img.kind = "image" /\ pc # "start"

\* C4: when the initialisation rectangle has width 0 or height 0 or reaches
\* beyond the image, no refinement iteration runs and no buffer or output file
\* is produced.
C4_InvalidRectRejected ==
    (Decoded /\ ~RectValid(rect, img.w, img.h))
    =>
    /\ iter = 0
    /\ rgba.kind = "None"
    /\ run.wrote = {}

\* C8: the rectangle remove_background computes for a decoded image has
\* positive width and height and lies within the image.
C8_RectWithinImage == Decoded => RectValid(rect, img.w, img.h)

\* C9: the mask starts definite-background outside the rectangle and
\* probable-foreground inside; after every iteration the pixels outside are still
\* definite-background and the pixels inside are probable-foreground or
\* probable-background; and in the composed buffer every pixel outside the
\* rectangle is (0, 0, 0) with opacity 0.
C9_DefiniteLabelsKept ==
    (pc \in {"iterating", "exited"} /\ img.kind = "image")
    =>
    /\ DOMAIN mask = Pixels(img.w, img.h)
    /\ \A p \in Pixels(img.w, img.h) :
        LET inside == /\ rect[1] <= p[1] /\ p[1] < rect[1] + rect[3]
                      /\ rect[2] <= p[2] /\ p[2] < rect[2] + rect[4]
        IN  /\ ~inside => mask[p] = GC_BGD
            /\ inside => mask[p] \in {GC_PR_FGD, GC_PR_BGD}
            /\ (inside /\ iter = 0) => mask[p] = GC_PR_FGD
            /\ (~inside /\ rgba.kind = "rgba") => rgba.px[p] = <<0, 0, 0, 0>>
    /\ iter <= 5
    /\ rgba.kind = "rgba" => iter = 5

C9_Witness ==
    /\ pc = "exited"
    /\ rgba.kind = "rgba"
    /\ iter = 5
    /\ img.w = 20
    /\ img.h = 20
    /\ \E p \in DOMAIN mask : mask[p] = GC_PR_BGD
    /\ \E p \in DOMAIN mask : mask[p] = GC_PR_FGD
    /\ mask[<<19, 19>>] = GC_BGD
    /\ img.px[<<19, 19>>] # <<0, 0, 0>>
    /\ rgba.px[<<19, 19>>] = <<0, 0, 0, 0>>

\* the final extension of p starts right after position i: a dot, then neither
\* dot nor separator, the component holding a character other than a dot before
HasExtAt(p, i) ==
    /\ p[i + 1] = "."
    /\ \A j \in (i + 2)..Len(p) : p[j] \notin {".", "/"}
    /\ \E j \in 1..i : p[j] # "." /\ \A m \in j..i : p[m] # "/"

\* p with its final extension removed
Stem(p) ==
    IF \E i \in 1..(Len(p) - 1) : HasExtAt(p, i)
    THEN SubSeq(p, 1, CHOOSE i \in 1..(Len(p) - 1) : HasExtAt(p, i))
    ELSE p

DirOf(p) == SubSeq(p, 1, rfind(p, "/"))

OthersUntouched ==
    /\ DOMAIN fs \subseteq (DOMAIN fs0) \cup {output_file}
    /\ \A q \in (DOMAIN fs0) \ {output_file} : q \in DOMAIN fs /\ fs[q] = fs0[q]

\* C5: a run that processes an existing file X.ext names one output path,
\* X_nobg.png with X the argument without its final extension: it lies in the
\* directory of the input, is never the input path, is the only path imwrite is
\* called on, and after a successful write holds the new buffer whatever was
\* there before; no other file changes.
C5_OutputNaming ==
    (\E i \in 1..Len(run.did) : run.did[i] = "process")
    =>
    /\ output_file = Stem(args.file) \o <<"_", "n", "o", "b", "g", ".", "p", "n", "g">>
    /\ output_file # args.file
    /\ DirOf(output_file) = DirOf(args.file)
    /\ run.wrote \subseteq {output_file}
    /\ (pc = "exited" /\ img.kind = "image") => run.wrote = {output_file}
    /\ Printed("Background removal complete.") =>
          rgba.kind = "rgba" /\ fs[output_file] = rgba
    /\ OthersUntouched

C5_Witness ==
    /\ pc = "exited"
    /\ args.file = <<"/", "a", ".", "a">>
    /\ output_file \in DOMAIN fs0
    /\ fs0[output_file] = OldFile
    /\ Printed("Background removal complete.")
    /\ fs[output_file] = rgba

Did(b) == \E i \in 1..Len(run.did) : run.did[i] = b

\* C6: one run of main() goes through at most one of its branches: it never
\* both registers and unregisters, and never changes the registry in a run that
\* processes a file or writes an output.
C6_ModesExclusive ==
    /\ Len(run.did) <= 1
    /\ ~(Did("register") /\ Did("unregister"))
    /\ ~(reg # reg0 /\ (run.wrote # {} \/ fs # fs0))
    /\ (Did("process") \/ Did("missing") \/ Did("help")) => reg = reg0
    /\ (Did("register") \/ Did("unregister")) =>
          fs = fs0 /\ run.wrote = {} /\ output_file = NoPath
    /\ Did("register") => args.register
    /\ Did("unregister") => args.unregister /\ ~args.register
    /\ Did("process") => ~args.register /\ ~args.unregister

C6_Witness ==
    /\ pc = "exited"
    /\ args.register
    /\ args.unregister
    /\ args.file \in DOMAIN fs0
    /\ fs0[args.file].kind = "image"
    /\ run.did = <<"register">>
    /\ reg # reg0
    /\ fs = fs0

FileMode == ~args.register /\ ~args.unregister /\ FileGiven(args)

\* C7: in a run that is to process a file, a missing input and an input that
\* does not decode end the run with their message, without an exception and with
\* the file system untouched; a failed write ends it with its message and
\* without an exception; and every file is either as it was or absent or holds
\* the whole new buffer.
C7_CleanAbort ==
    /\ (FileMode /\ args.file \notin DOMAIN fs0) =>
          /\ pc # "crashed"
          /\ fs = fs0
          /\ run.wrote = {}
          /\ pc = "exited" => Last(out)[1] = "Error: File does not exist."
    /\ (FileMode /\ args.file \in DOMAIN fs0 /\ fs0[args.file].kind # "image") =>
          /\ pc # "crashed"
          /\ fs = fs0
          /\ run.wrote = {}
          /\ pc = "exited" => /\ Printed("Error: Could not load image")
                              /\ Last(out)[1] = "Background removal failed."
    /\ Printed("Error: Could not write image") =>
          /\ pc = "exited"
          /\ Last(out)[1] = "Background removal failed."
          /\ output_file \in DOMAIN fs => fs[output_file] = fs0[output_file]
    /\ \A q \in DOMAIN fs : (q \in DOMAIN fs0 /\ fs[q] = fs0[q]) \/ fs[q] = rgba

C7_Witness ==
    /\ pc = "exited"
    /\ Printed("Error: Could not write image")
    /\ output_file \in DOMAIN fs0
    /\ fs[output_file] = OldFile
    /\ rgba.kind = "rgba"

====
